---- MODULE Spec2Model ----
(***************************************************************************)
(* Model of myeia.api.API: the retrying fetch (get_response under          *)
(* backoff.on_exception), the date normaliser (format_date) and the two    *)
(* public fetch operations (get_series, get_series_via_route), together    *)
(* with the remote service they query.                                     *)
(*                                                                         *)
(* Representation.  A date string is a record [tag, len, y, m, d]: len is  *)
(* the length of the string ("2020" is 4, "2020-03-05" is 10) and          *)
(* the fields a shorter string does not carry are 0.  A parsed date (a     *)
(* pandas Timestamp) is the integer DateNum.  A Python argument that may   *)
(* be a str or a list is a record [isList, items].  A float is a record    *)
(* [nan, x], x in tenths.                                                  *)
(***************************************************************************)
EXTENDS Integers, Sequences, FiniteSets, TLC

VARIABLES
    pc,          \* "idle": no call running; "fetch": inside get_response; "done": the call ended
    op,          \* the public operation running: "none", "get_series", "get_series_via_route"
    facet,       \* the caller's facet argument object (str or list), kept by the caller across calls
    series,      \* the caller's series argument object (str or list); the series_id of get_series
    start_date,  \* the start_date argument as passed (tag "omitted" when left out)
    end_date,    \* the end_date argument as passed
    url,         \* the request built by the operation
    tries,       \* HTTP GETs issued by the running call (backoff's tries counter)
    status,      \* status code of the last response the call received, 0 before the first
    history,     \* the rows the service holds for the requested series (set when it answers 200)
    result       \* what the call handed to its caller: a table or an exception

vars == <<pc, op, facet, series, start_date, end_date, url, tries, status, history, result>>

----------------------------------------------------------------------------
(* Bounds of the model *)

\* rows the service holds for one request, at most
MaxRows == 2

\* a facet list longer than this is not passed to another call
MaxFacetLen == 2

----------------------------------------------------------------------------
(* Program constants *)

\* backoff.on_exception(..., max_tries=10)
MaxTries == 10

\* relativedelta(months=840) of the start_date default
MonthsBack == 840

\* relativedelta(months=-60) of the end_date default, subtracted
MonthsAhead == 60

\* descriptions = ["series-description", "seriesDescription", "productName"]
descriptions == <<"series-description", "seriesDescription", "productName">>

----------------------------------------------------------------------------
(* Dates *)

\* date.today() when the module was imported (the defaults are evaluated once, then)
Today == [y |-> 2026, m |-> 11, d |-> 4]

\* date - relativedelta(months=-k): k calendar months later (earlier for k < 0);
\* the day of Today exists in every month, so no end-of-month clipping occurs
AddMonths(dt, k) ==
    LET t == dt.y * 12 + (dt.m - 1) + k
    IN  [y |-> t \div 12, m |-> (t % 12) + 1, d |-> dt.d]

\* str(date): the ISO string "YYYY-MM-DD"
StrOfDate(dt) == [tag |-> "str", len |-> 10, y |-> dt.y, m |-> dt.m, d |-> dt.d]

\* the string "YYYY" the service uses for the period of an annual series
YearStr(dt) == [tag |-> "str", len |-> 4, y |-> dt.y, m |-> 0, d |-> 0]

\* an argument left out of the call, and an argument passed as None
Omitted == [tag |-> "omitted", len |-> 0, y |-> 0, m |-> 0, d |-> 0]
NoneArg == [tag |-> "None", len |-> 0, y |-> 0, m |-> 0, d |-> 0]

\* the ordinal of a calendar date (months counted as 31 slots, order-preserving)
DateNum(y, m, d) == (y * 12 + (m - 1)) * 31 + (d - 1)

\* pd.to_datetime of a date string: a missing month or day is the first
to_datetime(s) ==
    DateNum(s.y, IF s.len >= 7 THEN s.m ELSE 1, IF s.len >= 10 THEN s.d ELSE 1)

\* index.astype(str) + "-01-01" applied to a four-character year
AppendJan1(s) == [tag |-> "str", len |-> 10, y |-> s.y, m |-> 1, d |-> 1]

\* a start default of 60 years (720 months) before today
DefaultStart_60_years == StrOfDate(AddMonths(Today, 0 - 720))

\* the default of start_date: str(date.today() - relativedelta(months=840))
DefaultStart == StrOfDate(AddMonths(Today, 0 - MonthsBack))

\* the default of end_date: str(date.today() - relativedelta(months=-60))
DefaultEnd == StrOfDate(AddMonths(Today, MonthsAhead))

\* the value the parameter start_date is bound to inside get_series / get_series_via_route
BoundStart(arg) == IF arg.tag = "omitted" THEN DefaultStart ELSE arg

\* the value the parameter end_date is bound to
BoundEnd(arg) == IF arg.tag = "omitted" THEN DefaultEnd ELSE arg

----------------------------------------------------------------------------
(* Python str-or-list arguments *)

Str(s) == [isList |-> FALSE, items |-> <<s>>]
List(q) == [isList |-> TRUE, items |-> q]

Range(q) == {q[i] : i \in 1..Len(q)}

\* zip(facet, series): pairs up to the shorter of the two
Zip(f, s) ==
    LET n == IF Len(f) <= Len(s) THEN Len(f) ELSE Len(s)
    IN  [i \in 1..n |-> <<f[i], s[i]>>]

----------------------------------------------------------------------------
(* The remote service *)

\* series identifiers the service knows, each a time series of its own
ValidIds == {"RNGC1", "RNGC2"}

\* the facet naming the series code of a row
FacetName == "series"

\* the human-readable label the service attaches to the rows of a series
DescriptionOf(id) ==
    IF id = "RNGC1" THEN "Natural Gas Futures Contract 1" ELSE "Natural Gas Futures Contract 2"

\* raw value fields: a number (as text), the sentinel, and text that is neither
ValueChoices == {"2.5", "NA", "abc"}

\* calendar months, relative to Today, in which the service may hold an observation:
\* the first and the last month of the default window, and the months next to them
MonthOffsets == {0 - MonthsBack - 1, 0 - MonthsBack, MonthsAhead, MonthsAhead + 1}

\* the lengths of the period strings of annual and daily series
PeriodLens == {4, 10}

\* the period string of a date at a granularity
PeriodStr(len, dt) ==
    IF len = 4 THEN YearStr(dt) ELSE StrOfDate(dt)

\* the rows the service may hold for a set of series at one granularity
RowChoices(ids, len) ==
    {[period |-> PeriodStr(len, AddMonths(Today, k)), value |-> v, series |-> id] :
        k \in MonthOffsets, v \in ValueChoices, id \in ids}

\* a series has one observation per period
OnePerPeriod(h) ==
    \A r1 \in h, r2 \in h : (r1.series = r2.series /\ r1.period = r2.period) => r1 = r2

RECURSIVE SubsetsUpTo(_, _)
SubsetsUpTo(S, k) ==
    IF k = 0 THEN {{}}
    ELSE LET P == SubsetsUpTo(S, k - 1) IN P \cup {p \cup {x} : p \in P, x \in S}

\* what the service may hold for the requested series: nothing for an unrecognized
\* identifier, at least one observation for every request naming a known one
Histories ==
    [ids \in SUBSET ValidIds |->
        IF ids = {} THEN {{}}
        ELSE UNION {{h \in SubsetsUpTo(RowChoices(ids, len), MaxRows) :
                        h # {} /\ OnePerPeriod(h)} : len \in PeriodLens}]

\* the identifiers a request asks for
RequestedIds(u) == {u.pairs[i][2] : i \in 1..Len(u.pairs)}

\* the rows of h the service selects for request u: the rows of the requested series,
\* within the start/end parameters when the URL carries them (both inclusive)
ServiceSelect(u, h) ==
    {r \in h :
        /\ r.series \in RequestedIds(u)
        /\ u.start.tag = "str" =>
              /\ to_datetime(r.period) >= to_datetime(u.start)
              /\ to_datetime(r.period) <= to_datetime(u.end)}

\* the sequences listing each element of the finite set S once, in an order of
\* non-increasing key[x]: every order a descending sort may leave equal keys in
RECURSIVE DescOrders(_, _)
DescOrders(S, key) ==
    IF S = {} THEN {<<>>}
    ELSE UNION {{<<x>> \o q : q \in DescOrders(S \ {x}, key)} :
                    x \in {y \in S : \A z \in S : key[y] >= key[z]}}

\* the "data" arrays the service may send for request u when it holds h:
\* sort[0][column]=period&sort[0][direction]=desc lists the selected rows latest first
ServiceData(u, h) ==
    LET S == ServiceSelect(u, h)
    IN  DescOrders(S, [r \in S |-> to_datetime(r.period)])

----------------------------------------------------------------------------
(* Results handed to the caller *)

NoResult ==
    [kind |-> "none", error |-> "", message |-> "", names |-> {}, code |-> 0,
     rows |-> <<>>, columns |-> <<>>]

\* a returned DataFrame: its rows (index and values, in order) and its column labels
Table(rows, columns) ==
    [kind |-> "table", error |-> "", message |-> "", names |-> {}, code |-> 0,
     rows |-> rows, columns |-> columns]

\* a raised exception: its class, its message, the identifiers the message names and,
\* for an HTTPError, the status code of e.response
Raised(error, message, names, code) ==
    [kind |-> "error", error |-> error, message |-> message, names |-> names, code |-> code,
     rows |-> <<>>, columns |-> <<>>]

----------------------------------------------------------------------------
(* get_response under backoff.on_exception *)

\* status codes with which the service may refuse a request
ErrorStatuses == {403, 429, 500}

\* response.raise_for_status(): HTTPError for a 4xx or 5xx status
raise_for_status(st) == 400 <= st /\ st < 600

\* a giveup predicate that lets a 403 be retried like any other status
giveup_never(st) == FALSE

\* a giveup predicate that also gives up on server errors
giveup_on_5xx(st) == st = 403 \/ st >= 500

\* giveup=lambda e: hasattr(e, "response") and e.response.status_code == 403
giveup(st) == st = 403

\* a ceiling test that is off by one: an eleventh attempt is made
max_tries_exceeded_late(n) == n = MaxTries + 1

\* backoff: max_tries_exceeded = (tries == max_tries)
max_tries_exceeded(n) == n = MaxTries

----------------------------------------------------------------------------
(* format_date, the date window, sort_index and the value coercion *)

\* format_date: the period becomes the index; bare years (judged by the first label)
\* get "-01-01" appended; then every label is parsed
format_date(df) ==
    IF df = <<>> THEN <<>>
    ELSE LET yearly == df[1].period.len = 4
         IN  [i \in 1..Len(df) |->
                [date |-> to_datetime(IF yearly THEN AppendJan1(df[i].period) ELSE df[i].period),
                 value |-> df[i].value,
                 series |-> df[i].series]]

\* a window that excludes its two end days
InWindow_exclusive(d, s, e) == d > to_datetime(s) /\ d < to_datetime(e)

\* (df.index >= start_date) & (df.index <= end_date) for one index label
InWindow(d, s, e) == d >= to_datetime(s) /\ d <= to_datetime(e)

\* df[(df.index >= start_date) & (df.index <= end_date)]
FilterWindow(df, s, e) == SelectSeq(df, LAMBDA r : InWindow(r.date, s, e))

\* df.sort_index(ascending=False): every order the sort may leave equal labels in
sort_index(df) ==
    LET I == 1..Len(df)
    IN  {[j \in I |-> df[p[j]]] : p \in DescOrders(I, [i \in I |-> df[i].date])}

\* the coercion without the replacement of the sentinel
replace_NA_skipped(v) == v

\* df[col].replace("NA", np.nan), done when "NA" is among the values
replace_NA(v) == IF v = "NA" THEN "nan" ELSE v

\* the texts float() accepts, with their values in tenths
NumberOf == ("2.5" :> 25)

\* float(v) raises ValueError
float_raises(v) == v # "nan" /\ v \notin DOMAIN NumberOf

\* float(v)
float(v) == IF v = "nan" THEN [nan |-> TRUE, x |-> 0] ELSE [nan |-> FALSE, x |-> NumberOf[v]]

\* whether df[data_identifier].astype(float), after the replacement, raises
astype_raises(df) == \E i \in 1..Len(df) : float_raises(replace_NA(df[i].value))

\* the frame after the replacement and astype(float)
astype_float(df) ==
    [i \in 1..Len(df) |->
        [date |-> df[i].date, value |-> float(replace_NA(df[i].value)), series |-> df[i].series]]

\* the columns of the fetched frame besides the index: the value, the facet column and,
\* when the route sends one, a description column
ColumnsOf(descCol) ==
    IF descCol = "" THEN <<"value", FacetName>> ELSE <<"value", FacetName, descCol>>

\* for col in df.columns: if col in descriptions
HasDescription(descCol) == descCol \in Range(descriptions)

\* df.rename(columns={data_identifier: name})
Rename(columns, name) == [i \in 1..Len(columns) |-> IF columns[i] = "value" THEN name ELSE columns[i]]

----------------------------------------------------------------------------
(* The two public operations, from the fetched frame to the result *)

\* get_series after the sort: the coercion, the early return of an empty frame and the
\* renaming of the value column to the description found in row 0
get_series_return(df, descCol) ==
    IF astype_raises(df) THEN Raised("ValueError", "could not convert string to float", {}, 0)
    ELSE LET fl == astype_float(df)
         IN  IF fl = <<>> THEN Table(fl, ColumnsOf(descCol))
             ELSE IF HasDescription(descCol) THEN Table(fl, <<DescriptionOf(fl[1].series)>>)
             ELSE Table(fl, ColumnsOf(descCol))

\* get_series from the frame get_response returned.  A frame without rows has no
\* "period" column and keeps its default integer index: the comparison of that index
\* with the date strings, or else the lookup of the value column, raises (which of
\* the two depends on the pandas version).
get_series_results(body, descCol, s, e) ==
    IF body = <<>>
    THEN {Raised("TypeError", "Invalid comparison between dtype=int64 and str", {}, 0),
          Raised("KeyError", "value", {}, 0)}
    ELSE {get_series_return(q, descCol) : q \in sort_index(FilterWindow(format_date(body), s, e))}

\* get_series_via_route after the sort: the coercion and the column selection.  The
\* result is paired with the facet object as the call leaves it.
get_series_via_route_return(df, descCol, f, sr) ==
    IF astype_raises(df)
    THEN <<Raised("ValueError", "could not convert string to float", {}, 0), f>>
    ELSE LET fl == astype_float(df)
             name == DescriptionOf(fl[1].series)
         IN  IF ~HasDescription(descCol) THEN <<Table(fl, ColumnsOf(descCol)), f>>
             ELSE IF ~f.isList /\ ~sr.isList THEN <<Table(fl, <<name>>), f>>
             ELSE LET columns == Rename(ColumnsOf(descCol), name)
                      f2 == List(Append(f.items, name))
                  IN  IF Range(f2.items) \subseteq Range(columns)
                      THEN <<Table(fl, f2.items), f2>>
                      ELSE <<Raised("KeyError", "not in index", {}, 0), f2>>

\* get_series_via_route from the frame get_response returned
get_series_via_route_results(body, descCol, f, sr) ==
    IF body = <<>>
    THEN {<<Raised("ValueError", "Error getting data for series", Range(sr.items), 0), f>>}
    ELSE {get_series_via_route_return(q, descCol, f, sr) : q \in sort_index(format_date(body))}

----------------------------------------------------------------------------
(* Requests *)

NoUrl == [kind |-> "none", pairs |-> <<>>, start |-> NoneArg, end |-> NoneArg]

\* f"seriesid/{series_id}?api_key={self.token}"
SeriesIdUrl(id) ==
    [kind |-> "seriesid", pairs |-> << <<"seriesid", id>> >>, start |-> NoneArg, end |-> NoneArg]

\* the route URL: "&start=..&end=.." when both dates are truthy, one "&facets[f][]=s"
\* per zipped pair of two lists, or the single pair of two strings
RouteUrl(f, sr, s, e) ==
    [kind |-> "route",
     pairs |-> IF f.isList THEN Zip(f.items, sr.items) ELSE << <<f.items[1], sr.items[1]>> >>,
     start |-> IF s.tag = "str" /\ e.tag = "str" THEN s ELSE NoneArg,
     end |-> IF s.tag = "str" /\ e.tag = "str" THEN e ELSE NoneArg]

\* the description column of a response, "" when it has none
DescColChoices == {"series-description", ""}

----------------------------------------------------------------------------
(* What callers pass *)

FacetChoices == {Str(FacetName), List(<<FacetName, FacetName>>)}

SeriesChoices == {Str("RNGC1"), Str("XXXX"), List(<<"RNGC1", "RNGC2">>)}

SeriesIdChoices == {"RNGC1", "XXXX"}

\* date windows passed to get_series: the defaults, two days passed explicitly, and
\* one day alone
WindowChoices ==
    {<<Omitted, Omitted>>,
     <<StrOfDate(AddMonths(Today, 0 - MonthsBack)), StrOfDate(AddMonths(Today, MonthsAhead))>>,
     <<StrOfDate(AddMonths(Today, MonthsAhead)), StrOfDate(AddMonths(Today, MonthsAhead))>>}

\* date windows passed to get_series_via_route: the defaults, one day alone, and None
RouteWindowChoices ==
    {<<Omitted, Omitted>>,
     <<StrOfDate(AddMonths(Today, MonthsAhead)), StrOfDate(AddMonths(Today, MonthsAhead))>>,
     <<NoneArg, NoneArg>>}

----------------------------------------------------------------------------
(* The state machine *)

Init ==
    /\ pc = "idle"
    /\ op = "none"
    /\ facet = Str(FacetName)
    /\ series = Str("RNGC1")
    /\ start_date = Omitted
    /\ end_date = Omitted
    /\ url = NoUrl
    /\ tries = 0
    /\ status = 0
    /\ history = {}
    /\ result = NoResult

\* A caller enters get_series: the URL is built and get_response is entered.  The call
\* takes no facet; the caller holds none but the default.
GetSeries(id, w) ==
    /\ pc = "idle"
    /\ pc' = "fetch"
    /\ op' = "get_series"
    /\ series' = Str(id)
    /\ start_date' = w[1]
    /\ end_date' = w[2]
    /\ url' = SeriesIdUrl(id)
    /\ tries' = 0
    /\ status' = 0
    /\ history' = {}
    /\ result' = NoResult
    /\ facet' = Str(FacetName)

\* A caller enters get_series_via_route with a facet and a series object: the URL is
\* built, or ValueError is raised when one is a list and the other is not.
GetSeriesViaRoute(f, sr, w) ==
    /\ pc = "idle"
    /\ Len(f.items) <= MaxFacetLen
    /\ op' = "get_series_via_route"
    /\ facet' = f
    /\ series' = sr
    /\ start_date' = w[1]
    /\ end_date' = w[2]
    /\ tries' = 0
    /\ status' = 0
    /\ history' = {}
    /\ IF f.isList = sr.isList
       THEN /\ pc' = "fetch"
            /\ url' = RouteUrl(f, sr, BoundStart(w[1]), BoundEnd(w[2]))
            /\ result' = NoResult
       ELSE /\ pc' = "done"
            /\ url' = NoUrl
            /\ result' = Raised("ValueError",
                                "Ensure that facet and series are of the same type",
                                Range(f.items) \cup Range(sr.items), 0)

\* One attempt of get_response answered with an error status: raise_for_status raises
\* HTTPError, and backoff either gives up (re-raising it) or lets the call try again.
AttemptFails(st) ==
    /\ pc = "fetch"
    /\ raise_for_status(st)
    /\ tries' = tries + 1
    /\ status' = st
    /\ IF giveup(st) \/ max_tries_exceeded(tries + 1)
       THEN /\ pc' = "done"
            /\ result' = Raised("HTTPError", "", {}, st)
       ELSE /\ pc' = "fetch"
            /\ result' = result
    /\ UNCHANGED <<op, facet, series, start_date, end_date, url, history>>

\* One attempt answered 200 with a body that is not JSON: response.json() raises, and
\* the exception, not an HTTPError, leaves get_response at once.
DecodeFails ==
    /\ pc = "fetch"
    /\ tries' = tries + 1
    /\ status' = 200
    /\ pc' = "done"
    /\ result' = Raised("JSONDecodeError", "", {}, 0)
    /\ UNCHANGED <<op, facet, series, start_date, end_date, url, history>>

\* One attempt of get_series answered 200 with a well-formed body: get_response
\* returns the rows and get_series runs to its end.
GetSeriesCompletes ==
    /\ pc = "fetch"
    /\ op = "get_series"
    /\ tries' = tries + 1
    /\ status' = 200
    /\ pc' = "done"
    /\ \E h \in Histories[RequestedIds(url) \cap ValidIds] :
         \E body \in ServiceData(url, h), descCol \in DescColChoices :
            /\ history' = h
            /\ result' \in get_series_results(body, descCol,
                                              BoundStart(start_date), BoundEnd(end_date))
    /\ UNCHANGED <<op, facet, series, start_date, end_date, url>>

\* One attempt of get_series_via_route answered 200 with a well-formed body.
GetSeriesViaRouteCompletes ==
    /\ pc = "fetch"
    /\ op = "get_series_via_route"
    /\ tries' = tries + 1
    /\ status' = 200
    /\ pc' = "done"
    /\ \E h \in Histories[RequestedIds(url) \cap ValidIds] :
         \E body \in ServiceData(url, h), descCol \in DescColChoices :
            /\ history' = h
            /\ \E out \in get_series_via_route_results(body, descCol, facet, series) :
                 /\ result' = out[1]
                 /\ facet' = out[2]
    /\ UNCHANGED <<op, series, start_date, end_date, url>>

\* The caller takes the result; the argument objects it passed stay in its hands.
Return ==
    /\ pc = "done"
    /\ pc' = "idle"
    /\ op' = "none"
    /\ start_date' = Omitted
    /\ end_date' = Omitted
    /\ url' = NoUrl
    /\ tries' = 0
    /\ status' = 0
    /\ history' = {}
    /\ result' = NoResult
    /\ UNCHANGED <<facet, series>>

Next ==
    \/ \E f \in FacetChoices \cup {facet}, sr \in SeriesChoices, w \in RouteWindowChoices :
          GetSeriesViaRoute(f, sr, w)
    \/ \E id \in SeriesIdChoices, w \in WindowChoices : GetSeries(id, w)
    \/ \E st \in ErrorStatuses : AttemptFails(st)
    \/ DecodeFails
    \/ GetSeriesViaRouteCompletes
    \/ GetSeriesCompletes
    \/ Return

Spec == Init /\ [][Next]_vars

----------------------------------------------------------------------------
(* Properties *)

Done == pc = "done"

\* the call ended with the exception class `error`
Raises(error) == Done /\ result.kind = "error" /\ result.error = error

\* the call returned a table
Returns == Done /\ result.kind = "table"

\* the last attempt was answered 200 with a body that decoded
Fetched == Done /\ status = 200 /\ ~Raises("JSONDecodeError")

\* the date a period string stands for: a bare year is its first of January
ParsedDate(s) ==
    IF s.len = 4 THEN DateNum(s.y, 1, 1) ELSE DateNum(s.y, s.m, s.d)

\* the float a raw value stands for
ExpectedValue(v) == IF v = "NA" THEN [nan |-> TRUE, x |-> 0] ELSE [nan |-> FALSE, x |-> 25]

\* the table row a raw row stands for
ExpectedRow(r) ==
    [date |-> ParsedDate(r.period), value |-> ExpectedValue(r.value), series |-> r.series]

\* the rows of h dated within [lo, hi]
Within(h, lo, hi) == {r \in h : lo <= ParsedDate(r.period) /\ ParsedDate(r.period) <= hi}

\* the returned table holds exactly the rows H, once each
TableIs(H) ==
    /\ Range(result.rows) = {ExpectedRow(r) : r \in H}
    /\ Len(result.rows) = Cardinality(H)

\* C1: a 403 response never triggers a retry: whenever the last response of a call was
\* a 403, whatever the number of attempts before it, the call has ended with that 403
\* HTTPError, so no further GET is issued.
C1_ForbiddenNeverRetried ==
    status = 403 => /\ pc = "done"
                    /\ result = Raised("HTTPError", "", {}, 403)
                    /\ tries \in 1..MaxTries

\* a 403 answered to the fifth attempt, after four retried failures
C1_Witness == status = 403 /\ tries = 5 /\ Raises("HTTPError")

\* C2: a transient 5xx before the tenth attempt never ends the call (it goes on to the
\* next GET), and a 200 with a well-formed body on attempt k+1 <= 10 ends it after
\* exactly those k+1 GETs with the operation's result for the rows the service sent,
\* no HTTP error surfaced.
C2_SucceedsAfterTransient ==
    /\ (status >= 500 /\ tries < MaxTries) => (pc = "fetch" /\ result = NoResult)
    /\ Fetched =>
         /\ tries \in 1..MaxTries
         /\ ~Raises("HTTPError")
         /\ \E body \in ServiceData(url, history), descCol \in DescColChoices :
              IF op = "get_series"
              THEN result \in get_series_results(body, descCol,
                                                BoundStart(start_date), BoundEnd(end_date))
              ELSE \E f \in {facet, List(SubSeq(facet.items, 1, Len(facet.items) - 1))} :
                     <<result, facet>> \in get_series_via_route_results(body, descCol, f, series)

\* three failed attempts, then a 200 on the fourth and a table returned
C2_Witness == Returns /\ status = 200 /\ tries = 4 /\ result.rows # <<>>

\* C3: a call never issues more than 10 GETs, and a tenth attempt answered with an
\* error status ends the call with the HTTPError of that attempt.
C3_AtMostTenAttempts ==
    /\ tries <= MaxTries
    /\ (tries = MaxTries /\ raise_for_status(status)) =>
          (pc = "done" /\ result = Raised("HTTPError", "", {}, status))

\* the tenth attempt answered 429 (the nine before it were retried)
C3_Witness == tries = MaxTries /\ status = 429 /\ Raises("HTTPError")

\* C4: get_series_via_route called with a list of n series values and a single facet
\* name issues n requests, each URL with one (facet, value) pair, and returns a table
\* with n value columns without raising.
C4_ListWithSingleFacet ==
    (Done /\ op = "get_series_via_route" /\ series.isList /\ ~facet.isList) =>
        /\ result.kind = "table"
        /\ tries >= Len(series.items)
        /\ Len(result.columns) = Len(series.items)

\* C5: the fetch operations tell the two causes of a zero-row result apart: an
\* unrecognized identifier surfaces an empty-result error naming it; a known identifier
\* with a date window outside its history returns an empty table without an error.
C5_EmptyCausesDistinguished ==
    Fetched =>
        /\ (RequestedIds(url) \cap ValidIds = {}) =>
              /\ Raises("ValueError")
              /\ result.message = "Error getting data for series"
              /\ Range(series.items) \subseteq result.names
        /\ (/\ RequestedIds(url) \cap ValidIds # {}
            /\ BoundStart(start_date).tag = "str"
            /\ Within(history, ParsedDate(BoundStart(start_date)),
                      ParsedDate(BoundEnd(end_date))) = {}) =>
              (Returns /\ result.rows = <<>>)

\* C6: the date window of get_series is inclusive on both ends: with start_date and
\* end_date passed, the returned table holds exactly the fetched rows dated d with
\* start_date <= d <= end_date.
C6_WindowInclusive ==
    (Returns /\ op = "get_series" /\ start_date.tag = "str" /\ end_date.tag = "str") =>
        TableIs(Within(history, ParsedDate(start_date), ParsedDate(end_date)))

\* a table holding a row dated start_date and a row dated end_date, start_date < end_date
C6_Witness ==
    /\ Returns /\ op = "get_series" /\ start_date.tag = "str"
    /\ ParsedDate(start_date) < ParsedDate(end_date)
    /\ {result.rows[i].date : i \in 1..Len(result.rows)}
          = {ParsedDate(start_date), ParsedDate(end_date)}

\* C7 as stated: with start_date and end_date omitted nothing is filtered out, every row
\* the service returned appears in the table get_series returns.
C7_NothingFilteredOut ==
    (Returns /\ op = "get_series" /\ start_date.tag = "omitted" /\ end_date.tag = "omitted") =>
        TableIs(history)

\* C7 as amended: with start_date and end_date omitted the window runs from 840 months
\* before to 60 months after the day the module was imported, and get_series returns
\* exactly the fetched rows dated within it, both ends included.
C7_DefaultWindow ==
    (Returns /\ op = "get_series" /\ start_date.tag = "omitted" /\ end_date.tag = "omitted") =>
        TableIs(Within(history,
                       ParsedDate(StrOfDate(AddMonths(Today, 0 - 840))),
                       ParsedDate(StrOfDate(AddMonths(Today, 60)))))

\* defaults in force, one fetched row on the first day of the window kept and one
\* fetched row before it dropped
C7_Witness ==
    /\ Returns /\ op = "get_series" /\ start_date.tag = "omitted"
    /\ Cardinality(history) = 2
    /\ Len(result.rows) = 1
    /\ result.rows[1].date = ParsedDate(StrOfDate(AddMonths(Today, 0 - 840)))

\* C8: every table get_series_via_route returns is non-empty and its date index is
\* strictly descending, no date occurring twice.
C8_StrictlyDescending ==
    (Returns /\ op = "get_series_via_route") =>
        /\ result.rows # <<>>
        /\ \A i \in 1..Len(result.rows), j \in 1..Len(result.rows) :
              i < j => result.rows[i].date > result.rows[j].date

\* the raw rows whose values the running operation coerces: those get_series keeps
\* after its date window, all those get_series_via_route fetched
Coerced ==
    IF op = "get_series"
    THEN Within(history, ParsedDate(BoundStart(start_date)), ParsedDate(BoundEnd(end_date)))
    ELSE ServiceSelect(url, history)

C10_ArgumentsUnchanged ==
    [][pc = "fetch" => (facet' = facet /\ series' = series)]_vars

====
